---------------------------- MODULE Spec2Model ----------------------------
(***************************************************************************)
(* A model of flip (src/src/main.rs): the batch driver `main` and the      *)
(* single-image converter `flip`.                                          *)
(*                                                                         *)
(* Representation choices:                                                 *)
(*  - a path is a record [stem, ext]; PathBuf::set_extension replaces ext. *)
(*  - a u32 that can exceed TLC's integers (args.crop) is a record         *)
(*    [hi, lo] standing for hi * 2^31 + lo, hi \in {0,1}, lo < 2^31.       *)
(*    Image dimensions stay small and are plain naturals.                  *)
(*  - the f32 scale is the rational scaleQ / ScaleDen.  For the small      *)
(*    dimensions of the model the f32 product `w as f32 * scale` is the    *)
(*    exact rational product.                                              *)
(*  - the file system maps a path to what it holds: "absent", "source"     *)
(*    (a file that was there before the run), "empty" (created and         *)
(*    truncated), "partial" (an interrupted encode), "gif" (a fully        *)
(*    encoded frame).                                                      *)
(*  - the resampling filter only selects pixel values; it is passed        *)
(*    through to the image crate and has no effect on any modelled state.  *)
(***************************************************************************)
EXTENDS Integers, Sequences, FiniteSets, TLC

VARIABLES
    pc,             \* position of main: "glob","loop","body","delete","summary","done","exit1","panicked"
    overflowChecks, \* build profile: TRUE = overflow-checked (debug), FALSE = wrapping (release)
    args,           \* Args: [patternOk, destroy, scaleQ, crop]
    globResult,     \* the entries the pattern's files yield through glob(), in order: [ok, path];
                    \* read by main only when the pattern parses
    scale,          \* main's `scale` (line 143), in units of 1/ScaleDen
    i,              \* index of the next resolved path of the for loop (line 153)
    destroy,        \* main's `destroy: Vec<PathBuf>` (line 152)
    n,              \* main's `n` (line 162); meaningful once pc is past "loop"
    d,              \* index of the next entry of the deletion loop (line 164)
    fs,             \* the file system
    outcomes,       \* history: per flip call that returned, [path, result]
    last,           \* history: what the flip call of the current iteration computed
    removeLog,      \* history: the remove_file calls, [path, ok]
    stdout,         \* lines printed to standard output
    stderr          \* lines printed to standard error

vars == <<pc, overflowChecks, args, globResult, scale, i, destroy, n, d, fs,
          outcomes, last, removeLog, stdout, stderr>>

---------------------------------------------------------------------------
(* Bounds of the model *)

MaxDim == 4

MaxCrop == 2

MaxEntries == 2

ScaleDen == 4

---------------------------------------------------------------------------
(* Small helpers *)

Min(a, b) == IF a < b THEN a ELSE b

Max(a, b) == IF a > b THEN a ELSE b

TwoPow30 == 2^30

U32(hi, lo) == [hi |-> hi, lo |-> lo]

SmallU32(c) == U32(0, c)

\* the u32 c is > 0
U32Pos(c) == c.hi = 1 \/ c.lo > 0

\* 2 * c does not fit in 32 bits
DoubleOverflows(c) == c.hi = 1

\* 2 * c modulo 2^32
WrappingDouble(c) ==
    IF c.lo < TwoPow30 THEN U32(0, 2 * c.lo) ELSE U32(1, 2 * (c.lo - TwoPow30))

\* u32::min of a u32 and a (small) dimension
U32MinDim(x, dim) == IF x.hi = 1 THEN dim ELSE Min(x.lo, dim)

\* the mathematical 2 * c >= dim, for a u32 c and a small dimension
TwiceAtLeast(c, dim) == c.hi = 1 \/ c.lo >= (dim + 1) \div 2

\* f32::round of the rational num / den (den > 0): half away from zero
Round(num, den) ==
    IF num >= 0 THEN (2 * num + den) \div (2 * den)
    ELSE 0 - ((2 * (0 - num) + den) \div (2 * den))

\* `as u32` of a rounded f32: negative values saturate to 0 (values above
\* u32::MAX saturate too, and are out of reach of the model's dimensions)
F32AsU32(x) == IF x < 0 THEN 0 ELSE x

Path(stem, ext) == [stem |-> stem, ext |-> ext]

\* PathBuf::set_extension
SetExtension(p, ext) == [p EXCEPT !.ext = ext]

---------------------------------------------------------------------------
(* flip: the geometry of lines 75-103 *)

\* lines 79-83: `w > crop_x && h > crop_y`, with crop_x = (2 * crop).min(w)
CropCheck(w, h, crop) ==
    LET crop_x == U32MinDim(WrappingDouble(crop), w)
        crop_y == U32MinDim(WrappingDouble(crop), h)
    IN  w > crop_x /\ h > crop_y

\* a crop that takes the margin off once per axis instead of once per side
CropRectOneMargin(w, h, crop) ==
    [x |-> crop, y |-> crop, w |-> w - U32MinDim(crop, w), h |-> h - U32MinDim(crop, h)]

\* lines 84-88: the rectangle handed to image.crop(crop, crop, new_w, new_h)
CropRect(w, h, crop) ==
    LET crop_x == U32MinDim(WrappingDouble(crop), w)
        crop_y == U32MinDim(WrappingDouble(crop), h)
    IN  [x |-> crop, y |-> crop, w |-> w - crop_x, h |-> h - crop_y]

\* line 88, image::DynamicImage::crop: the rectangle is clamped to the image
\* (x to the width, y to the height, the extent to what is left); the result
\* has the clamped extent
ImageCrop(w, h, rect) ==
    LET x == U32MinDim(rect.x, w)
        y == U32MinDim(rect.y, h)
    IN  [w |-> Min(rect.w, w - x), h |-> Min(rect.h, h - y)]

\* a flip that never resizes to less than 3 pixels a side
ResizeTargetAtLeastThree(dim, s) == Max(F32AsU32(Round(dim * s, ScaleDen)), 3)

\* lines 100-101: ((dim as f32 * scale).round() as u32).max(2)
ResizeTarget(dim, s) == Max(F32AsU32(Round(dim * s, ScaleDen)), 2)

\* lines 99-103, image::DynamicImage::resize(nwidth, nheight, filter): the
\* aspect ratio is preserved; the image is scaled by the smaller of the two
\* ratios nwidth/w, nheight/h, each side rounded and at least 1.  An empty
\* image has a NaN product, which casts to 0 and is raised to 1.
ImageResize(w, h, nwidth, nheight) ==
    IF w = 0 \/ h = 0
    THEN [w |-> IF w = 0 THEN 1 ELSE nwidth, h |-> IF h = 0 THEN 1 ELSE nheight]
    ELSE IF nwidth * h <= nheight * w
         THEN [w |-> Max(Round(w * nwidth, w), 1), h |-> Max(Round(h * nwidth, w), 1)]
         ELSE [w |-> Max(Round(w * nheight, h), 1), h |-> Max(Round(h * nheight, h), 1)]

\* the crop step, lines 77-95
CropStep(w, h, crop) ==
    IF ~U32Pos(crop)
    THEN [tag |-> "none", rect |-> [x |-> crop, y |-> crop, w |-> w, h |-> h],
          w |-> w, h |-> h]
    ELSE IF DoubleOverflows(crop) /\ overflowChecks
    THEN [tag |-> "overflow", rect |-> [x |-> crop, y |-> crop, w |-> 0, h |-> 0],
          w |-> w, h |-> h]
    ELSE IF CropCheck(w, h, crop)
    THEN LET rect == CropRect(w, h, crop)
             img  == ImageCrop(w, h, rect)
         IN  [tag |-> "cropped", rect |-> rect, w |-> img.w, h |-> img.h]
    ELSE [tag |-> "rejected", rect |-> [x |-> crop, y |-> crop, w |-> 0, h |-> 0],
          w |-> w, h |-> h]

---------------------------------------------------------------------------
(* flip: lines 65-133 *)

NoPath == Path("", "")

NoFlip ==
    [path |-> NoPath, result |-> "none", decoded |-> FALSE, w |-> 0, h |-> 0,
     cropTag |-> "notreached", rect |-> [x |-> SmallU32(0), y |-> SmallU32(0), w |-> 0, h |-> 0],
     cw |-> 0, ch |-> 0, resized |-> FALSE, tw |-> 0, th |-> 0, rw |-> 0, rh |-> 0,
     out |-> NoPath, create |-> "notreached", flush |-> "notreached",
     encode |-> "notreached"]

\* a flip that ignores the error of encode_frame
EncodeResultIgnored(enc) == "Ok"

\* lines 122-132: what flip returns once encode_frame has returned
EncodeResult(enc) == IF enc = "ok" THEN "Ok" ELSE "ErrEncode"

\* lines 108-113: what flip does once File::create has returned
CreateResult(created) == IF created THEN "continue" ELSE "ErrCreate"

\* an encode failure that removes the file it was writing
WrittenOrRolledBack(enc) == IF enc = "ok" THEN "gif" ELSE "absent"

\* what the output file holds after encode_frame: the whole frame, or what an
\* interrupted encode left of it ("partial": empty or truncated)
Written(enc) == IF enc = "ok" THEN "gif" ELSE "partial"

\* flip(image_path, scale, filter, crop) on the file system fs0, where env is
\* what the environment answers: [decode: [ok, w, h], create, flush, encode,
\* emptyResize].  The result is [info, fs, out]: the record of the call, the
\* file system after it and the lines printed.
flip(image_path, s, crop, env, fs0) ==
    LET base == [NoFlip EXCEPT !.path = image_path]
    IN
    IF ~env.decode.ok
    THEN [info |-> [base EXCEPT !.result = "ErrOpen"], fs |-> fs0, out |-> <<>>]
    ELSE
    LET w  == env.decode.w
        h  == env.decode.h
        cr == CropStep(w, h, crop)
        b1 == [base EXCEPT !.decoded = TRUE, !.w = w, !.h = h,
                           !.cropTag = cr.tag, !.rect = cr.rect]
    IN
    IF cr.tag = "overflow"
    THEN [info |-> [b1 EXCEPT !.result = "Panic"], fs |-> fs0, out |-> <<>>]
    ELSE IF cr.tag = "rejected"
    THEN [info |-> [b1 EXCEPT !.result = "ErrCrop"], fs |-> fs0, out |-> <<>>]
    ELSE
    LET tw == ResizeTarget(cr.w, s)
        th == ResizeTarget(cr.h, s)
        b2 == [b1 EXCEPT !.cw = cr.w, !.ch = cr.h, !.tw = tw, !.th = th]
    IN
    IF (cr.w = 0 \/ cr.h = 0) /\ env.emptyResize = "panic"
    THEN [info |-> [b2 EXCEPT !.result = "Panic"], fs |-> fs0, out |-> <<>>]
    ELSE
    LET img         == ImageResize(cr.w, cr.h, tw, th)
        output_path == SetExtension(image_path, "gif")
        b3 == [b2 EXCEPT !.resized = TRUE, !.rw = img.w, !.rh = img.h,
                         !.out = output_path]
    IN
    LET fs1 == IF env.create THEN [fs0 EXCEPT ![output_path] = "empty"] ELSE fs0
        b4  == [b3 EXCEPT !.create = IF env.create THEN "ok" ELSE "fail"]
    IN
    IF CreateResult(env.create) = "ErrCreate"
    THEN [info |-> [b4 EXCEPT !.result = "ErrCreate"], fs |-> fs1, out |-> <<>>]
    ELSE
    IF ~env.flush
    THEN [info |-> [b4 EXCEPT !.flush = "fail", !.result = "Panic"],
          fs |-> fs1, out |-> <<>>]
    ELSE
    LET b5   == [b4 EXCEPT !.flush = "ok", !.encode = env.encode]
        fs2  == [fs1 EXCEPT ![output_path] = Written(env.encode)]
        line == [kind |-> "flipping", path |-> output_path, n |-> 0]
    IN
    IF EncodeResult(env.encode) = "Ok"
    THEN [info |-> [b5 EXCEPT !.result = "Ok"], fs |-> fs2,
          out |-> <<line, [kind |-> "done", path |-> output_path, n |-> 0]>>]
    ELSE [info |-> [b5 EXCEPT !.result = "ErrEncode"], fs |-> fs2, out |-> <<line>>]

---------------------------------------------------------------------------
(* The inputs of a run *)

\* the files a pattern can match, in alphabetical order: glob yields its
\* paths in alphabetical order
PathOrder == <<Path("a", "gif"), Path("a", "png"), Path("b", "png")>>

Paths == {PathOrder[k] : k \in DOMAIN PathOrder}

\* the position of a path in the alphabetical order
Rank(p) == CHOOSE k \in DOMAIN PathOrder : PathOrder[k] = p

\* every path a run can touch: the sources and their outputs
AllPaths == Paths \cup {SetExtension(p, "gif") : p \in Paths}

\* an entry of the glob iterator: a resolved path, or an error
GlobEntry == [ok : {TRUE}, path : Paths] \cup {[ok |-> FALSE, path |-> NoPath]}

\* glob results: at most MaxEntries entries, the resolved paths in
\* alphabetical order (so no path twice), errors anywhere between them
GlobResults ==
    {g \in UNION {[1..k -> GlobEntry] : k \in 0..MaxEntries} :
        \A a, b \in DOMAIN g :
            (a < b /\ g[a].ok /\ g[b].ok) => Rank(g[a].path) < Rank(g[b].path)}

\* crop margins: 0..MaxCrop and 2^31 .. 2^31 + MaxCrop
Crops == {U32(hi, lo) : hi \in {0, 1}, lo \in 0..MaxCrop}

\* scale factors, in units of 1/ScaleDen: 1, 1 + 2/ScaleDen, 11
Scales == {ScaleDen, ScaleDen + 2, 11 * ScaleDen}

Dims == 1..MaxDim

---------------------------------------------------------------------------
(* main: lines 135-177 *)

\* a main that passes the user's scale on as it is
ClampScaleNone(s) == s

\* line 143: args.scale.min(10.0)
ClampScale(s) == Min(s, 10 * ScaleDen)

\* an iterator that ends at the first entry that failed to resolve
TakeWhileOk(g) ==
    LET bad == {k \in DOMAIN g : ~g[k].ok}
    IN  IF bad = {} THEN g
        ELSE SubSeq(g, 1, (CHOOSE k \in bad : \A m \in bad : k <= m) - 1)

\* line 153: paths.flatten() keeps the resolved entries
Flatten(g) == SelectSeq(g, LAMBDA e : e.ok)

\* the resolved paths of this run, in order
Resolved == Flatten(globResult)

\* a loop that stops after its first iteration
LoopStopsAfterFirst == i <= Len(Resolved) /\ i <= 1

\* line 153: the loop has an entry left
LoopHasNext == i <= Len(Resolved)

\* a match that pushes the entry whatever flip returned
PushAlways(list, entry, result) == Append(list, entry)

\* a match with its arms exchanged
PushOnErr(list, entry, result) ==
    IF result = "Ok" THEN list ELSE Append(list, entry)

\* lines 154-159: the arm of the match on flip's result
PushOnResult(list, entry, result) ==
    IF result = "Ok" THEN Append(list, entry) ELSE list

\* line 158: eprintln!("{msg}") on Err
ReportOnResult(err, entry, result) ==
    IF result = "Ok" THEN err ELSE Append(err, [kind |-> result, path |-> entry])

\* line 162: let n = destroy.len()
CountOf(list) == Len(list)

\* a deletion loop that breaks at the first failure
NextToDeleteOrBreak(k, removed) == IF removed THEN k + 1 ELSE Len(destroy) + 1

\* line 164: the deletion loop moves on to the next entry whatever remove_file answered
NextToDelete(k, removed) == k + 1

\* what image::open can answer for a file: a file that was there before the
\* run may or may not decode; a fully encoded frame decodes; an empty or
\* truncated file does not
DecodeOutcomes(content) ==
    (IF content \in {"source", "gif"}
     THEN {[ok |-> TRUE, w |-> w, h |-> h] : w \in Dims, h \in Dims} ELSE {})
    \cup
    (IF content = "gif" THEN {} ELSE {[ok |-> FALSE, w |-> 0, h |-> 0]})

\* flip, having decoded dec, gets as far as the resize step (line 99)
ResizeReached(dec, crop) ==
    dec.ok /\ CropStep(dec.w, dec.h, crop).tag \in {"none", "cropped"}

\* the image flip hands to the resize step is empty
ResizesEmpty(dec, crop) ==
    /\ ResizeReached(dec, crop)
    /\ CropStep(dec.w, dec.h, crop).w = 0 \/ CropStep(dec.w, dec.h, crop).h = 0

\* what File::create, the flush of stdout and encode_frame can answer, each
\* asked only if the one before it succeeded (an answer not asked for is
\* fixed to TRUE / "ok")
IoAnswers ==
    {[create |-> FALSE, flush |-> TRUE, encode |-> "ok"],
     [create |-> TRUE, flush |-> FALSE, encode |-> "ok"],
     [create |-> TRUE, flush |-> TRUE, encode |-> "fail"],
     [create |-> TRUE, flush |-> TRUE, encode |-> "ok"]}

FlipEnv(dec, io, emptyResize) ==
    [decode |-> dec, create |-> io.create, flush |-> io.flush, encode |-> io.encode,
     emptyResize |-> emptyResize]

\* what the environment can answer during one call of flip on a file holding
\* `content`: the decode, then the file and stdout calls if flip gets to
\* them.  Resizing an empty image either gives a blank image or panics,
\* depending on the version of the image crate.
FlipEnvs(content, crop) ==
    LET decs    == DecodeOutcomes(content)
        go      == {dec \in decs : ResizeReached(dec, crop)}
        empties == {dec \in go : ResizesEmpty(dec, crop)}
        noIo    == [create |-> TRUE, flush |-> TRUE, encode |-> "ok"]
    IN  {FlipEnv(dec, noIo, "blank") : dec \in decs \ go}
        \cup {FlipEnv(dec, noIo, "panic") : dec \in empties}
        \cup {FlipEnv(dec, io, "blank") : dec \in go, io \in IoAnswers}

\* a main that goes on to the loop whatever glob answered
AfterGlobIgnoresError(patternOk) == "loop"

\* lines 139-141: let Ok(paths) = glob(..) else { error!(..) }: main goes on to
\* the loop, or error! ends the process
AfterGlob(patternOk) == IF patternOk THEN "loop" ELSE "exit1"

\* the files on disk when the run starts: the paths the pattern is about
FilesAtStart(g) ==
    [p \in AllPaths |->
        IF \E k \in DOMAIN g : g[k].ok /\ g[k].path = p THEN "source" ELSE "absent"]

\* a main that runs the deletion loop whatever the flag
AfterLoopAlwaysDeletes(destroyFlag) == "delete"

\* line 163: if args.destroy { the deletion loop }
AfterLoop(destroyFlag) == IF destroyFlag THEN "delete" ELSE "summary"

\* what remove_file can answer: it can fail on any file, and fails on a missing one
RemoveOutcomes(content) == IF content = "absent" THEN {FALSE} ELSE {TRUE, FALSE}

Init ==
    /\ pc = "glob"
    /\ overflowChecks \in BOOLEAN
    /\ args \in [patternOk : BOOLEAN, destroy : BOOLEAN, scaleQ : Scales, crop : Crops]
    /\ globResult \in GlobResults
    /\ scale = 0
    /\ i = 1
    /\ destroy = <<>>
    /\ n = 0
    /\ d = 1
    /\ fs = FilesAtStart(globResult)
    /\ outcomes = <<>>
    /\ last = NoFlip
    /\ removeLog = <<>>
    /\ stdout = <<>>
    /\ stderr = <<>>

\* lines 139-152, the pattern parses
GlobOk ==
    /\ pc = "glob"
    /\ args.patternOk
    /\ scale' = ClampScale(args.scaleQ)
    /\ destroy' = <<>>
    /\ pc' = AfterGlob(TRUE)
    /\ UNCHANGED <<overflowChecks, args, globResult, i, n, d, fs, outcomes, last,
                   removeLog, stdout, stderr>>

\* lines 139-141 and 58-63, the pattern does not parse: error! prints and exits 1
GlobError ==
    /\ pc = "glob"
    /\ ~args.patternOk
    /\ stderr' = Append(stderr, [kind |-> "BadPattern", path |-> NoPath])
    /\ pc' = AfterGlob(FALSE)
    /\ UNCHANGED <<overflowChecks, args, globResult, scale, i, destroy, n, d, fs,
                   outcomes, last, removeLog, stdout>>

\* line 153: the iterator yields the next resolved path and the body is entered
NextEntry ==
    /\ pc = "loop"
    /\ LoopHasNext
    /\ pc' = "body"
    /\ last' = NoFlip
    /\ UNCHANGED <<overflowChecks, args, globResult, scale, i, destroy, n, d, fs,
                   outcomes, removeLog, stdout, stderr>>

\* lines 154-159: the body of the loop, the call of flip included
FlipEntry ==
    /\ pc = "body"
    /\ LET entry == Resolved[i].path
       IN  \E env \in FlipEnvs(fs[entry], args.crop) :
             LET r == flip(entry, scale, args.crop, env, fs)
             IN  /\ fs' = r.fs
                 /\ last' = r.info
                 /\ stdout' = stdout \o r.out
                 /\ IF r.info.result = "Panic"
                    THEN /\ pc' = "panicked"
                         /\ UNCHANGED <<i, destroy, outcomes, stderr>>
                    ELSE /\ pc' = "loop"
                         /\ i' = i + 1
                         /\ destroy' = PushOnResult(destroy, entry, r.info.result)
                         /\ stderr' = ReportOnResult(stderr, entry, r.info.result)
                         /\ outcomes' = Append(outcomes,
                                [path |-> entry, result |-> r.info.result])
    /\ UNCHANGED <<overflowChecks, args, globResult, scale, n, d, removeLog>>

\* lines 153 and 160-163: the iterator is exhausted; n is taken and the
\* deletion phase chosen
LoopEnd ==
    /\ pc = "loop"
    /\ ~LoopHasNext
    /\ n' = CountOf(destroy)
    /\ d' = 1
    /\ pc' = AfterLoop(args.destroy)
    /\ last' = NoFlip
    /\ UNCHANGED <<overflowChecks, args, globResult, scale, i, destroy, fs, outcomes,
                   removeLog, stdout, stderr>>

\* lines 164-172: one iteration of the deletion loop
DeleteStep ==
    /\ pc = "delete"
    /\ d <= Len(destroy)
    /\ LET entry == destroy[d]
       IN  \E removed \in RemoveOutcomes(fs[entry]) :
             /\ fs' = IF removed THEN [fs EXCEPT ![entry] = "absent"] ELSE fs
             /\ removeLog' = Append(removeLog, [path |-> entry, ok |-> removed])
             /\ stderr' = IF removed THEN stderr
                          ELSE Append(stderr, [kind |-> "ErrDelete", path |-> entry])
             /\ d' = NextToDelete(d, removed)
    /\ UNCHANGED <<pc, overflowChecks, args, globResult, scale, i, destroy, n,
                   outcomes, last, stdout>>

\* lines 175-177: the summary line, and main returns (exit status 0)
Summary ==
    /\ \/ pc = "summary"
       \/ pc = "delete" /\ d > Len(destroy)
    /\ stdout' = Append(stdout, [kind |-> "summary", path |-> NoPath, n |-> n])
    /\ pc' = "done"
    /\ UNCHANGED <<overflowChecks, args, globResult, scale, i, destroy, n, d, fs,
                   outcomes, last, removeLog, stderr>>

Next ==
    GlobOk \/ GlobError \/ NextEntry \/ FlipEntry \/ LoopEnd \/ DeleteStep \/ Summary

Spec == Init /\ [][Next]_vars

\* the process's exit status: 0 when main returns, 1 from error!, 101 from a panic
ExitStatus ==
    CASE pc = "done" -> "0"
      [] pc = "exit1" -> "1"
      [] pc = "panicked" -> "101"
      [] OTHER -> "running"

---------------------------------------------------------------------------
(* The claims *)

\* C1: whenever the crop margin c > 0 has 2*c >= w or 2*c >= h for the decoded
\* image, flip returns the crop rejection and File::create is never reached.
C1_OversizedCropRejected ==
    (/\ last.decoded
     /\ U32Pos(args.crop)
     /\ TwiceAtLeast(args.crop, last.w) \/ TwiceAtLeast(args.crop, last.h))
    => (last.result = "ErrCrop" /\ last.create = "notreached")

\* C2: whenever the crop margin c > 0 has 2*c < min(w, h), the crop is accepted,
\* the rectangle cut out has origin (c, c) and the post-crop dimensions are
\* (w - 2*c, h - 2*c).
C2_CropAcceptedDims ==
    (/\ last.decoded
     /\ U32Pos(args.crop)
     /\ ~TwiceAtLeast(args.crop, last.w)
     /\ ~TwiceAtLeast(args.crop, last.h))
    => /\ last.cropTag = "cropped"
       /\ last.rect = [x |-> args.crop, y |-> args.crop,
                       w |-> last.w - 2 * args.crop.lo, h |-> last.h - 2 * args.crop.lo]
       /\ last.cw = last.w - 2 * args.crop.lo
       /\ last.ch = last.h - 2 * args.crop.lo

\* a flip call that cropped a margin off every side of the image
C2_Witness ==
    /\ last.cropTag = "cropped"
    /\ args.crop.hi = 0
    /\ last.w > 2 * args.crop.lo
    /\ last.cw = last.w - 2 * args.crop.lo
    /\ last.result = "Ok"

\* C3: for a positive scale s <= 10 and post-crop dimensions (w, h), the image
\* after the resize step has dimensions (max(2, round(w*s)), max(2, round(h*s))).
C3_ResizeDims ==
    (last.resized /\ scale > 0 /\ scale <= 10 * ScaleDen /\ last.cw >= 1 /\ last.ch >= 1)
    => /\ last.rw = Max(2, Round(last.cw * scale, ScaleDen))
       /\ last.rh = Max(2, Round(last.ch * scale, ScaleDen))

\* the paths whose conversion succeeded, in the order of the run
Succeeded ==
    LET ok == SelectSeq(outcomes, LAMBDA o : o.result = "Ok")
    IN  [k \in 1..Len(ok) |-> ok[k].path]

\* the number of conversions that failed
Failed == Cardinality({k \in DOMAIN outcomes : outcomes[k].result # "Ok"})

\* the loop has produced an outcome for every resolved path
LoopOver == pc \in {"delete", "summary", "done"}

\* C4: a run over N resolved paths produces one outcome per path, in order;
\* when the loop ends after K failures there are exactly N outcomes, the
\* deletion candidates are exactly the N-K succeeded paths and n = N-K.
C4_BatchTally ==
    /\ pc \in {"loop", "body", "delete", "summary", "done"} =>
          /\ Len(outcomes) <= Len(Resolved)
          /\ \A k \in DOMAIN outcomes : outcomes[k].path = Resolved[k].path
          /\ destroy = Succeeded
    /\ LoopOver =>
          /\ Len(outcomes) = Len(Resolved)
          /\ Len(destroy) = Len(Resolved) - Failed
          /\ n = Len(Resolved) - Failed

\* a finished run over two paths, one converted and one failed
C4_Witness ==
    /\ pc = "done"
    /\ Len(Resolved) = 2
    /\ Failed = 1
    /\ n = 1

\* the remove_file call on path p failed
DeletionFailed(p) == \E k \in DOMAIN removeLog : removeLog[k].path = p /\ ~removeLog[k].ok

\* C5: when a run with destroy set has finished, the output file of every
\* succeeded conversion exists and its source is gone, unless deleting it failed.
C5_DestroyKeepsOutputs ==
    (pc = "done" /\ args.destroy) =>
        \A k \in DOMAIN outcomes :
            outcomes[k].result = "Ok" =>
                /\ fs[SetExtension(outcomes[k].path, "gif")] # "absent"
                /\ fs[outcomes[k].path] = "absent" \/ DeletionFailed(outcomes[k].path)

\* C6: a path whose conversion failed is never a deletion candidate, is never
\* handed to remove_file, and its file still exists.
C6_FailedNeverDeleted ==
    \A k \in DOMAIN outcomes :
        outcomes[k].result # "Ok" =>
            /\ \A j \in DOMAIN destroy : destroy[j] # outcomes[k].path
            /\ \A j \in DOMAIN removeLog : removeLog[j].path # outcomes[k].path
            /\ fs[outcomes[k].path] # "absent"

\* a finished run with destroy set that deleted a source and had a failure
C6_Witness ==
    /\ pc = "done"
    /\ args.destroy
    /\ Failed >= 1
    /\ \E j \in DOMAIN removeLog : removeLog[j].ok

\* C7: with a valid pattern the process is never ended from inside flip: it
\* is still running or has returned from main with status 0.
C7_FlipNeverTerminates ==
    args.patternOk => ExitStatus \in {"running", "0"}

\* C8: when flip returns Ok the output file holds the fully encoded frame, and
\* a failed File::create or encode_frame is returned as the matching Err.
C8_OkMeansEncoded ==
    /\ last.result = "Ok" => (last.create = "ok" /\ last.encode = "ok" /\ fs[last.out] = "gif")
    /\ last.create = "fail" => last.result = "ErrCreate"
    /\ last.encode = "fail" => last.result = "ErrEncode"

\* a flip call that returned Ok, its output file written
C8_Witness ==
    /\ last.result = "Ok"
    /\ fs[last.out] = "gif"

\* C9: the deletion loop hands every candidate to remove_file once, in order,
\* whatever the earlier calls answered, reports each failure, and the summary
\* prints the count taken before the first deletion.
C9_DeletionFailureReported ==
    /\ Len(removeLog) <= Len(destroy)
    /\ \A k \in DOMAIN removeLog : removeLog[k].path = destroy[k]
    /\ Cardinality({k \in DOMAIN stderr : stderr[k].kind = "ErrDelete"})
          = Cardinality({k \in DOMAIN removeLog : ~removeLog[k].ok})
    /\ LoopOver => n = Len(Succeeded)
    /\ pc = "done" =>
          /\ args.destroy => Len(removeLog) = Len(destroy)
          /\ stdout[Len(stdout)] = [kind |-> "summary", path |-> NoPath, n |-> Len(Succeeded)]

\* a finished run whose first deletion failed and whose second succeeded
C9_Witness ==
    /\ pc = "done"
    /\ Len(removeLog) = 2
    /\ ~removeLog[1].ok
    /\ removeLog[2].ok
    /\ n = 2

\* C10: remove_file is called, and a file disappears, only once every resolved
\* path has its outcome; each step deletes at most one file and converts none.
C10_DeletionAfterLoop ==
    /\ [](Len(removeLog) > 0 => Len(outcomes) = Len(Resolved))
    /\ [][/\ Len(removeLog') <= Len(removeLog) + 1
          /\ (\E p \in AllPaths : fs[p] # "absent" /\ fs'[p] = "absent") =>
                /\ Len(outcomes) = Len(Resolved)
                /\ outcomes' = outcomes
                /\ Len(removeLog') = Len(removeLog) + 1
                /\ Cardinality({p \in AllPaths : fs[p] # fs'[p]}) = 1]_vars

\* a finished run that deleted two sources
C10_Witness ==
    /\ pc = "done"
    /\ Len(Resolved) = 2
    /\ Len(removeLog) = 2
    /\ removeLog[1].ok
    /\ removeLog[2].ok

\* C11: with a malformed pattern the process only reports the error and exits
\* with status 1: flip and remove_file are never called and every file is as
\* it was when the run started.
C11_BadPatternExits ==
    ~args.patternOk =>
        /\ pc \in {"glob", "exit1"}
        /\ last = NoFlip
        /\ outcomes = <<>>
        /\ removeLog = <<>>
        /\ destroy = <<>>
        /\ stdout = <<>>
        /\ fs = FilesAtStart(globResult)
        /\ pc = "glob" => stderr = <<>>
        /\ pc = "exit1" =>
              /\ ExitStatus = "1"
              /\ stderr = <<[kind |-> "BadPattern", path |-> NoPath]>>

\* the process has exited on a malformed pattern, files on disk
C11_Witness ==
    /\ ~args.patternOk
    /\ pc = "exit1"
    /\ ExitStatus = "1"
    /\ Len(stderr) = 1
    /\ \E p \in AllPaths : fs[p] = "source"

\* C12: when File::create succeeded and encode_frame failed, flip returns the
\* Err that names the source path, the created output file is still on disk
\* (empty or truncated), and the source is not a deletion candidate.
C12_EncodeFailureLeavesOutput ==
    /\ (last.create = "ok" /\ last.encode = "fail") => last.result = "ErrEncode"
    /\ last.result = "ErrEncode" =>
          /\ last.create = "ok"
          /\ fs[last.out] = "partial"
          /\ stderr[Len(stderr)] = [kind |-> "ErrEncode", path |-> last.path]
          /\ outcomes[Len(outcomes)] = [path |-> last.path, result |-> "ErrEncode"]
    /\ \A k \in DOMAIN outcomes :
          outcomes[k].result = "ErrEncode" =>
              /\ \A j \in DOMAIN destroy : destroy[j] # outcomes[k].path
              /\ \A j \in DOMAIN removeLog : removeLog[j].path # outcomes[k].path

\* a flip call on a.png whose encode failed: a.gif is left, truncated
C12_Witness ==
    /\ last.result = "ErrEncode"
    /\ last.path = Path("a", "png")
    /\ fs[Path("a", "gif")] = "partial"
    /\ fs[Path("a", "png")] = "source"
    /\ destroy = <<>>

\* C13: with crop margin 0 nothing is cropped or rejected and the post-crop
\* dimensions are the decoded ones, whatever they are; with scale 1.0 an
\* image of at least 2 x 2 keeps its dimensions through the resize.
C13_NeutralGeometry ==
    /\ (last.decoded /\ args.crop = SmallU32(0)) =>
          /\ last.cropTag = "none"
          /\ last.result \notin {"ErrCrop", "Panic"} \/ last.flush = "fail"
          /\ last.resized
          /\ last.cw = last.w
          /\ last.ch = last.h
    /\ (last.resized /\ scale = ScaleDen /\ last.cw >= 2 /\ last.ch >= 2) =>
          /\ last.rw = last.cw
          /\ last.rh = last.ch

\* a 2 x 3 image converted with crop 0 and scale 1.0
C13_Witness ==
    /\ last.result = "Ok"
    /\ args.crop = SmallU32(0)
    /\ scale = ScaleDen
    /\ last.w = 2
    /\ last.h = 3
    /\ last.rw = 2
    /\ last.rh = 3

\* C14: the scale main hands to flip is min(args.scale, 10.0) from the moment
\* it is taken to the end of the run, the same for every file, and the resize
\* targets flip computes from it are at most max(2, round(10 * dimension)).
C14_ScaleClamped ==
    /\ [](pc \notin {"glob", "exit1"} =>
            /\ scale = Min(args.scaleQ, 10 * ScaleDen)
            /\ last.cropTag \in {"none", "cropped"} =>
                  /\ last.tw = Max(F32AsU32(Round(last.cw * Min(args.scaleQ, 10 * ScaleDen),
                                                  ScaleDen)), 2)
                  /\ last.th = Max(F32AsU32(Round(last.ch * Min(args.scaleQ, 10 * ScaleDen),
                                                  ScaleDen)), 2)
                  /\ last.tw <= Max(2, 10 * last.cw)
                  /\ last.th <= Max(2, 10 * last.ch))
    /\ [][pc # "glob" => scale' = scale]_vars

\* the second file of a run with scale 11 is resized with scale 10
C14_Witness ==
    /\ args.scaleQ = 11 * ScaleDen
    /\ Len(outcomes) = 2
    /\ last.result = "Ok"
    /\ last.cw = 2
    /\ last.ch = 2
    /\ last.tw = 20
    /\ last.th = 20
    /\ last.rw = 20

\* C15: without the destroy flag remove_file is never called and every file
\* that was there when the run started is still there, whatever the
\* conversions returned.
C15_NoDestroyDeletesNothing ==
    ~args.destroy =>
        /\ removeLog = <<>>
        /\ pc # "delete"
        /\ \A p \in AllPaths : FilesAtStart(globResult)[p] # "absent" => fs[p] # "absent"

\* a finished run without the flag: one conversion succeeded, one failed,
\* both sources are still there
C15_Witness ==
    /\ pc = "done"
    /\ ~args.destroy
    /\ Len(outcomes) = 2
    /\ Failed = 1
    /\ n = 1
    /\ \A k \in DOMAIN outcomes : fs[outcomes[k].path] # "absent"

\* the number of glob entries that resolved
ResolvedCount == Cardinality({j \in DOMAIN globResult : globResult[j].ok})

\* C16: a glob entry that failed to resolve is never handed to flip, has no
\* outcome and no line on stderr, is never counted or deleted, and every
\* resolved entry, before or after it, gets its outcome.
C16_UnresolvedEntrySkipped ==
    /\ last.path # NoPath =>
          \E j \in DOMAIN globResult : globResult[j].ok /\ globResult[j].path = last.path
    /\ \A k \in DOMAIN outcomes :
          \E j \in DOMAIN globResult : globResult[j].ok /\ globResult[j].path = outcomes[k].path
    /\ Len(outcomes) <= ResolvedCount
    /\ \A k \in DOMAIN destroy : destroy[k] # NoPath
    /\ \A k \in DOMAIN removeLog : removeLog[k].path # NoPath
    /\ \A k \in DOMAIN stderr : stderr[k].kind # "BadPattern" => stderr[k].path # NoPath
    /\ Cardinality({k \in DOMAIN stderr : stderr[k].kind \notin {"ErrDelete", "BadPattern"}})
          = Failed
    /\ LoopOver =>
          /\ Len(outcomes) = ResolvedCount
          /\ \A j \in DOMAIN globResult :
                globResult[j].ok => \E k \in DOMAIN outcomes : outcomes[k].path = globResult[j].path
          /\ n <= ResolvedCount

\* a finished run whose first glob entry failed to resolve and whose second
\* was converted and deleted
C16_Witness ==
    /\ pc = "done"
    /\ Len(globResult) = 2
    /\ ~globResult[1].ok
    /\ globResult[2].ok
    /\ outcomes = <<[path |-> globResult[2].path, result |-> "Ok"]>>
    /\ stderr = <<>>
    /\ n = 1
    /\ removeLog = <<[path |-> globResult[2].path, ok |-> TRUE]>>

\* C17: flip's output path is never its own source path, File::create is
\* never called on a matched source path, and until the deletion phase every
\* matched source file holds what it held when the run started.
C17_SourcesNeverWritten ==
    /\ last.out # NoPath => last.out # last.path
    /\ last.create = "ok" => \A j \in DOMAIN Resolved : Resolved[j].path # last.out
    /\ (pc \notin {"glob", "exit1"} /\ removeLog = <<>>) =>
          \A j \in DOMAIN Resolved : fs[Resolved[j].path] = "source"

\* C18: two different sources that both converted have different output
\* paths, and as long as nothing is deleted (and no call has panicked) the
\* files written by the run are as many as the conversions that succeeded.
C18_DistinctOutputs ==
    /\ \A j, k \in DOMAIN outcomes :
          (j < k /\ outcomes[j].result = "Ok" /\ outcomes[k].result = "Ok") =>
              SetExtension(outcomes[j].path, "gif") # SetExtension(outcomes[k].path, "gif")
    /\ (removeLog = <<>> /\ pc # "panicked") =>
          Cardinality({p \in AllPaths : fs[p] = "gif"}) = Len(Succeeded)

===========================================================================
